---------------------------- MODULE Spec2Model ----------------------------
(***************************************************************************)
(* A model of SimpleSTL::UniquePtr (src/SimpleSTL/UniquePtr.hpp): the      *)
(* exclusive-ownership pointer, its deleter and the exchange primitive.    *)
(*                                                                         *)
(* A program is a caller that creates UniquePtr objects, calls their       *)
(* member functions and lets them go out of scope.  Every member function  *)
(* is one action; inside an action the statements of the function are      *)
(* executed in source order on a small machine state (the m_p fields, the  *)
(* number of deleter calls per resource, and the ordered list of deleter   *)
(* calls and field stores the function has made).                          *)
(*                                                                         *)
(* Spec is the programs over single-object types, ArraySpec the programs   *)
(* that mix UniquePtr<T> and UniquePtr<T[]>, and ExchangeSpec the function *)
(* exchange called on its own.                                             *)
(***************************************************************************)
EXTENDS Integers, Sequences, FiniteSets, TLC

\* Number of UniquePtr objects a program may create, numbered in creation order.
NumInst == 2
\* Number of resources the caller may allocate, numbered in allocation order.
NumHandles == 2

\* Number of pointer variables exchange is tried on, on its own.
NumLocs == 3

\* nullptr (lines 52, 62, 77, 85, 97, 101).
NULL == 0
\* "no object" / "no value" in the record of the last operation.
NoInst == NULL
NoValue == NULL - 1

Inst == 1 .. NumInst
Handles == 1 .. NumHandles
Ptr == Handles \cup {NULL}
Locs == 1 .. NumLocs

(***************************************************************************)
(* Of an object's type UniquePtr<X> the state keeps whether X is a single  *)
(* object type T or an array type T[] (the deleter is the default one).    *)
(* The element type itself is not part of the state.  The caller is taken  *)
(* to choose the types so that each call compiles: the move constructor    *)
(* and operator= take an object of the same UniquePtr type (lines 76, 81), *)
(* the converting constructor one of another type whose pointer converts   *)
(* implicitly (line 60: Derived to Base; any UDeleter), and a raw pointer  *)
(* handed to an object converts to its element type.  The conversion of a  *)
(* pointer to a base class keeps the object it points to, so a resource is *)
(* named by the same number on either side.                                *)
(***************************************************************************)
Types == {"T", "T[]"}

VARIABLES
    m_p,        \* line 45: the field m_p of every live object (domain = live objects)
    type,       \* lines 42, 118: per live object, the X of its type UniquePtr<X>
    nobj,       \* how many objects have been created so far
    nalloc,     \* how many resources the caller has allocated so far
    delCount,   \* per resource, how many times a deleter has been called on it
    wellFormed, \* FALSE once the program instantiates a member that does not compile
    focus,      \* the one object whose history is being followed, and that history
    last        \* the last operation: its arguments, result and ordered effects

vars == <<m_p, type, nobj, nalloc, delCount, wellFormed, focus, last>>

Live == DOMAIN m_p

----------------------------------------------------------------------------
(* The machine state a member function runs on, and its two effects.       *)

St0 == [mem |-> m_p, del |-> delCount, tr |-> << >>, pol |-> << >>]

DelEv(p) == [ev |-> "delete", at |-> NoInst, v |-> p]
StoreEv(i, v) == [ev |-> "store", at |-> i, v |-> v]

\* What DefaultDeleter<X>::operator() does with its argument: the primary
\* template (lines 11-16) or the partial specialization for X = T[] (18-23).
DefaultDeleter(X) == IF X = "T[]" THEN "delete[]" ELSE "delete"

\* Variant: an array specialization whose base is UniquePtr<T>, with the
\* deleter defaulted anew from the element type.
Deleter_of_base(X) == DefaultDeleter("T")

\* The Deleter the members of UniquePtr<X> are instantiated with.  Line 42:
\* Deleter = DefaultDeleter<X>, for X = T[] too, as the specialization takes
\* its default argument from the primary template; lines 118-119:
\* UniquePtr<T[], Deleter> has no members of its own, they are those of its
\* base UniquePtr<T, Deleter>, with the same Deleter.
Deleter(X) == DefaultDeleter(X)

\* Deleter{}(p) in a member of object i (lines 66, 84, 102): one release of
\* the resource p, by the deleter i's type is instantiated with.
DeleterCall(st, i, p) ==
    [st EXCEPT !.del[p] = @ + 1, !.tr = Append(@, DelEv(p)),
               !.pol = Append(@, Deleter(type[i]))]

\* An assignment to the field m_p of object i (i may be under construction).
Assign(st, i, v) ==
    [st EXCEPT !.mem = (i :> v) @@ @, !.tr = Append(@, StoreEv(i, v))]

\* Variant: an exchange that puts the old value back (dst = tmp).
exchange_st_keeps(st, dst, val) == Assign(st, dst, st.mem[dst])

\* exchange(dst, val), lines 33-39, on the field m_p of object dst:
\* tmp = std::move(dst) copies the raw pointer (line 35), dst = val stores
\* (line 36), tmp is returned (line 38).
exchange_ret(st, dst) == st.mem[dst]
exchange_st(st, dst, val) == Assign(st, dst, val)

\* Line 36 assigns to dst.  In a const member function m_p is an lvalue of
\* type T *const, T of exchange is deduced as T *const, and the assignment
\* to a read-only reference is ill-formed.
exchange_compiles(dstIsConst) == ~dstIsConst

----------------------------------------------------------------------------
(* The member functions, statement by statement.                           *)

\* UniquePtr(std::nullptr_t = nullptr), lines 51-53.
ctor_null(st, i) == Assign(st, i, NULL)

\* explicit UniquePtr(T *p), lines 55-57.
ctor_raw(st, i, p) == Assign(st, i, p)

\* Variant: copies the source's pointer and leaves the source as it was.
ctor_conv_copy(st, i, that) == Assign(st, i, st.mem[that])

\* UniquePtr(UniquePtr<U, UDeleter> &&that), lines 60-63:
\* m_p = exchange(that.m_p, nullptr).  The call stores nullptr into
\* that.m_p before its result is assigned to m_p.
ctor_conv(st, i, that) ==
    Assign(exchange_st(st, that, NULL), i, exchange_ret(st, that))

\* Variants: copy operations that are defined, and what they would do
\* (the memberwise copy of m_p).
ctor_copy_defined == FALSE
copy_assign_defined == FALSE
memberwise_copy(st, i, that) == Assign(st, i, st.mem[that])

\* UniquePtr(UniquePtr const &that) = delete, line 70, and
\* operator=(UniquePtr const &that) = delete, line 73.  A program that
\* refers to a deleted function is ill-formed.
ctor_copy_deleted == TRUE
copy_assign_deleted == TRUE

\* Variant: copies the source's pointer and leaves the source as it was.
ctor_move_copy(st, i, that) == Assign(st, i, st.mem[that])

\* Variant: takes the source's pointer first and nulls the source afterwards.
ctor_move_dest_first(st, i, that) ==
    Assign(Assign(st, i, st.mem[that]), that, NULL)

\* UniquePtr(UniquePtr &&that), lines 76-78.
ctor_move(st, i, that) ==
    Assign(exchange_st(st, that, NULL), i, exchange_ret(st, that))

\* Variant: a destructor that releases nothing.
dtor_leak(st, i) == st

\* ~UniquePtr(), lines 65-67: if (m_p) Deleter{}(m_p).
dtor(st, i) ==
    IF st.mem[i] # NULL THEN DeleterCall(st, i, st.mem[i]) ELSE st

\* Variants: an operator= that leaves the source as it was, one that
\* releases the old pointer only after taking the new one, and one
\* without the test for self-assignment.
move_assign_keeps_source(st, i, that) ==
    IF i # that
    THEN LET s1 == IF st.mem[i] # NULL THEN DeleterCall(st, i, st.mem[i]) ELSE st
         IN  Assign(s1, i, s1.mem[that])
    ELSE st
move_assign_release_last(st, i, that) ==
    IF i # that
    THEN LET s1 == Assign(exchange_st(st, that, NULL), i, exchange_ret(st, that))
         IN  IF st.mem[i] # NULL THEN DeleterCall(s1, i, st.mem[i]) ELSE s1
    ELSE st
move_assign_no_self_check(st, i, that) ==
    LET s1 == IF st.mem[i] # NULL THEN DeleterCall(st, i, st.mem[i]) ELSE st
    IN  Assign(exchange_st(s1, that, NULL), i, exchange_ret(s1, that))

\* operator=(UniquePtr &&that), lines 81-88.
move_assign(st, i, that) ==
    IF i # that
    THEN LET s1 == IF st.mem[i] # NULL THEN DeleterCall(st, i, st.mem[i]) ELSE st
         IN  Assign(exchange_st(s1, that, NULL), i, exchange_ret(s1, that))
    ELSE st

\* Variant: a get() that gives its pointer away like release().
get_gives_away(st, i) == exchange_st(st, i, NULL)

\* get() const, lines 91-93: return m_p.  get is the value returned, get_st
\* the machine state the call leaves.
get(st, i) == st.mem[i]
get_st(st, i) == st

\* operator*() const, lines 108-110: return *m_p, the resource m_p points
\* to (named by its number).  Defined only for a pointer to a live resource.
operator_star(st, i) == st.mem[i]
operator_star_st(st, i) == st

\* operator->() const, lines 113-115: return m_p.
operator_arrow(st, i) == st.mem[i]
operator_arrow_st(st, i) == st

\* release() const, lines 96-98: return exchange(m_p, nullptr).  The
\* function is const, so its m_p is const (see exchange_compiles).
release_is_const == TRUE
release_compiles == exchange_compiles(release_is_const)
release_ret(st, i) == exchange_ret(st, i)
release_st(st, i) == exchange_st(st, i, NULL)

\* Variant: a reset that stores the new pointer before it releases the old.
reset_store_first(st, i, p) ==
    LET s1 == Assign(st, i, p)
    IN  IF st.mem[i] # NULL THEN DeleterCall(s1, i, st.mem[i]) ELSE s1

\* reset(T *p = nullptr), lines 101-105: if (m_p) Deleter{}(m_p); m_p = p.
reset(st, i, p) ==
    LET s1 == IF st.mem[i] # NULL THEN DeleterCall(st, i, st.mem[i]) ELSE st
    IN  Assign(s1, i, p)

\* The new-expression of lines 124 and 130, yielding the resource h.  The
\* allocation function may throw (nothing is allocated), the constructor of
\* T may throw (the new-expression frees the storage it obtained and
\* rethrows), or the expression yields the pointer h.
NewOutcomes == {"ok", "bad_alloc", "ctor_throws"}
AllocEv(h) == [ev |-> "new", at |-> NoInst, v |-> h]
FreeEv(h) == [ev |-> "operator delete", at |-> NoInst, v |-> h]
new_expr(st, h, outcome) ==
    CASE outcome = "bad_alloc" -> st
      [] outcome = "ctor_throws" ->
            [st EXCEPT !.tr = Append(Append(@, AllocEv(h)), FreeEv(h))]
      [] OTHER -> [st EXCEPT !.tr = Append(@, AllocEv(h))]

\* Variant: a helper that allocates but returns an empty UniquePtr.
makeUnique_unwrapped(st, i, h, outcome) ==
    IF outcome = "ok" THEN ctor_null(new_expr(st, h, outcome), i)
                      ELSE new_expr(st, h, outcome)

\* makeUnique<T>(args...), lines 122-125: return UniquePtr<T>(new T(args...)).
\* The operand of return is a prvalue, so it initialises the caller's
\* object i itself; an exception of the new-expression leaves the function
\* before any UniquePtr exists.
makeUnique(st, i, h, outcome) ==
    IF outcome = "ok" THEN ctor_raw(new_expr(st, h, outcome), i, h)
                      ELSE new_expr(st, h, outcome)

\* makeUniqueForOverwrite<T>(), lines 128-131: return UniquePtr<T>(new T).
makeUniqueForOverwrite(st, i, h, outcome) ==
    IF outcome = "ok" THEN ctor_raw(new_expr(st, h, outcome), i, h)
                      ELSE new_expr(st, h, outcome)

----------------------------------------------------------------------------
(* What the caller may do.                                                 *)

\* Objects other than i that hold p.
OtherOwners(i, p) == {j \in Live \ {i} : m_p[j] = p}

\* The raw pointers a caller may hand to object i (constructor of line 55,
\* reset of line 101): nullptr, the result of a new-expression (the next
\* resource), or a resource allocated earlier that no other object owns
\* and that has not been released yet.  The pointer i itself holds is not
\* excluded.
Allocated == 1 .. nalloc
Fresh == {h \in Handles : h = nalloc + 1}
RawArgs(i) ==
    {NULL} \cup Fresh
           \cup {h \in Allocated : OtherOwners(i, h) = {} /\ delCount[h] = 0}

\* The caller's new-expression, evaluated when p is its result.
New(p) == nalloc' = IF p \in Fresh THEN p ELSE nalloc

----------------------------------------------------------------------------
(* History, for the properties that span operations.  One object at a time *)
(* is followed; which one is the observer's free choice (the parameter w   *)
(* of the actions), so every object's history is followed in some          *)
(* behaviour.  focus.obj is the object, focus.kind what is known of it:    *)
(*   "raw"         built by UniquePtr(T *p) from a non-null p and since    *)
(*                 then not reset, released, moved from or move-assigned   *)
(*                 over by another object                                  *)
(*   "made"        returned by makeUnique or makeUniqueForOverwrite; since *)
(*                 then as for "raw"                                       *)
(*   "conv"        built by the converting move constructor from a source  *)
(*                 holding a non-null pointer that had never been released;*)
(*                 since then only get() and self-move-assignment          *)
(*   "convSource"  was the source of a converting move construction; since *)
(*                 then only get() and self-move-assignment                *)
(*   "selfMoved"   was self-move-assigned; since then only get() and       *)
(*                 self-move-assignment                                    *)

NoFocus == [obj |-> NoInst, kind |-> "none"]
Focus(i, kind) == [obj |-> i, kind |-> kind]

\* An operation that changes what the objects of `touched` hold (or ends
\* them) ends the history followed for them.
Kept(touched) == IF focus.obj \in touched THEN NoFocus ELSE focus

\* The record of an operation: type is the X of self's type UniquePtr<X>,
\* pol the deleters it called, in order, old and src are the pointers self
\* and that held before it, oldRel how often old had been released before it, was
\* the history followed for self before it.
Op(name, self, that, arg, ret, st) ==
    [op |-> name, self |-> self, that |-> that, arg |-> arg,
     old |-> IF self \in Live THEN m_p[self] ELSE NoValue,
     oldRel |-> IF self \in Live /\ m_p[self] # NULL THEN delCount[m_p[self]] ELSE 0,
     src |-> IF that \in Live THEN m_p[that] ELSE NoValue,
     ret |-> ret, ok |-> TRUE, threw |-> FALSE, tr |-> st.tr,
     type |-> IF self \in Live THEN type[self] ELSE "none", pol |-> st.pol,
     was |-> IF self \in Live /\ focus.obj = self THEN focus.kind ELSE "none"]

\* The values a program's state is made of.
Commit(st) ==
    /\ m_p' = st.mem
    /\ delCount' = st.del

----------------------------------------------------------------------------
(* The actions: one per member function.  A new object gets the next       *)
(* number.                                                                 *)

Init ==
    /\ m_p = << >>
    /\ type = << >>
    /\ nobj = 0
    /\ nalloc = 0
    /\ delCount = [h \in Handles |-> 0]
    /\ wellFormed = TRUE
    /\ focus = NoFocus
    /\ last = [op |-> "init", self |-> NoInst, that |-> NoInst, arg |-> NoValue,
               old |-> NoValue, oldRel |-> 0, src |-> NoValue, ret |-> NoValue,
               ok |-> TRUE, threw |-> FALSE, tr |-> << >>,
               type |-> "none", pol |-> << >>, was |-> "none"]

\* Object i, of type UniquePtr<X>, comes into being.
Born(i, X) ==
    /\ wellFormed /\ nobj < NumInst /\ i = nobj + 1
    /\ nobj' = i
    /\ type' = (i :> X) @@ type
    /\ UNCHANGED wellFormed

DefaultConstruct(i, X) ==
    /\ Born(i, X)
    /\ Commit(ctor_null(St0, i))
    /\ last' = Op("ctor_null", i, NoInst, NoValue, NoValue, ctor_null(St0, i))
    /\ UNCHANGED <<nalloc, focus>>

\* UniquePtr<T[]> declares no constructor and inherits none, and its base
\* is not copy-initialised from a raw pointer (the constructor of line 55 is
\* explicit): only UniquePtr<T> is built from a raw pointer.
Construct(i, p, w) ==
    /\ Born(i, "T")
    /\ p \in RawArgs(i) /\ New(p)
    /\ Commit(ctor_raw(St0, i, p))
    /\ last' = Op("ctor_raw", i, NoInst, p, NoValue, ctor_raw(St0, i, p))
    /\ w => p # NULL
    /\ focus' = IF w THEN Focus(i, "raw") ELSE focus

\* The program is rejected by the compiler: nothing has run and nothing
\* runs (no object has a history), and only the offending call is on record.
NoProgram(rec) ==
    /\ wellFormed' = FALSE
    /\ last' = [rec EXCEPT !.ok = FALSE, !.was = "none"]
    /\ m_p' = << >>
    /\ type' = << >>
    /\ nobj' = 0
    /\ nalloc' = 0
    /\ delCount' = [h \in Handles |-> 0]
    /\ focus' = NoFocus

\* UniquePtr b(a) or b = a with an lvalue a of the same type.
CopyConstruct(i, that) ==
    /\ that \in Live
    /\ wellFormed /\ nobj < NumInst /\ i = nobj + 1
    /\ IF ctor_copy_deleted
       THEN NoProgram(Op("ctor_copy", i, that, NoValue, NoValue, St0))
       ELSE /\ Commit(memberwise_copy(St0, i, that))
            /\ last' = Op("ctor_copy", i, that, NoValue, NoValue,
                          memberwise_copy(St0, i, that))
            /\ nobj' = i
            /\ type' = (i :> type[that]) @@ type
            /\ UNCHANGED <<nalloc, wellFormed, focus>>

CopyAssign(i, that) ==
    /\ wellFormed /\ i \in Live /\ that \in Live /\ type[i] = type[that]
    /\ IF copy_assign_deleted
       THEN NoProgram(Op("copy_assign", i, that, NoValue, NoValue, St0))
       ELSE /\ Commit(memberwise_copy(St0, i, that))
            /\ last' = Op("copy_assign", i, that, NoValue, NoValue,
                          memberwise_copy(St0, i, that))
            /\ UNCHANGED <<type, nobj, nalloc, wellFormed, focus>>

\* The caller's object i is initialised by a call of a helper, which
\* allocates the next resource, or the call throws and there is no object i.
\* The helpers return UniquePtr<T>, which for an array type T has no
\* constructor that takes the pointer: they are called for single objects.
Made(name, i, h, outcome, w, st) ==
    /\ wellFormed /\ nobj < NumInst /\ i = nobj + 1 /\ h \in Fresh
    /\ Commit(st)
    /\ IF outcome = "ok"
       THEN /\ nobj' = i /\ nalloc' = h
            /\ type' = (i :> "T") @@ type
            /\ last' = Op(name, i, NoInst, NoValue, h, st)
            /\ focus' = IF w THEN Focus(i, "made") ELSE focus
       ELSE /\ ~w
            /\ last' = [Op(name, NoInst, NoInst, NoValue, NoValue, st)
                          EXCEPT !.threw = TRUE]
            /\ UNCHANGED <<type, nobj, nalloc, focus>>
    /\ UNCHANGED wellFormed

MakeUnique(i, h, outcome, w) ==
    Made("makeUnique", i, h, outcome, w, makeUnique(St0, i, h, outcome))

MakeUniqueForOverwrite(i, h, outcome, w) ==
    Made("makeUniqueForOverwrite", i, h, outcome, w,
         makeUniqueForOverwrite(St0, i, h, outcome))

\* Chosen by overload resolution when the source is of another UniquePtr type.
\* U is deduced as the source's X, and U * converts to a pointer only if U
\* is no array type, so the source is a UniquePtr<T>.  A UniquePtr<T[]> is
\* built this way as an aggregate, from an initialiser for its base.
ConvertingMoveConstruct(i, X, that, w) ==
    /\ that \in Live /\ type[that] = "T"
    /\ Born(i, X)
    /\ Commit(ctor_conv(St0, i, that))
    /\ last' = Op("ctor_conv", i, that, NoValue, NoValue, ctor_conv(St0, i, that))
    /\ w = "self" => m_p[that] # NULL /\ delCount[m_p[that]] = 0
    /\ focus' = CASE w = "self" -> Focus(i, "conv")
                  [] w = "that" -> Focus(that, "convSource")
                  [] OTHER -> Kept({that})
    /\ UNCHANGED nalloc

MoveConstruct(i, that) ==
    /\ that \in Live
    /\ Born(i, type[that])
    /\ Commit(ctor_move(St0, i, that))
    /\ last' = Op("ctor_move", i, that, NoValue, NoValue, ctor_move(St0, i, that))
    /\ focus' = Kept({that})
    /\ UNCHANGED nalloc

MoveAssign(i, that, w) ==
    /\ wellFormed /\ i \in Live /\ that \in Live /\ type[i] = type[that]
    /\ Commit(move_assign(St0, i, that))
    /\ last' = Op("move_assign", i, that, NoValue, NoValue, move_assign(St0, i, that))
    /\ w => i = that
    /\ focus' = IF i = that
                THEN IF w THEN Focus(i, "selfMoved") ELSE focus
                ELSE Kept({i, that})
    /\ UNCHANGED <<type, nobj, nalloc, wellFormed>>

Get(i) ==
    /\ wellFormed /\ i \in Live
    /\ Commit(get_st(St0, i))
    /\ last' = Op("get", i, NoInst, NoValue, get(St0, i), get_st(St0, i))
    /\ UNCHANGED <<type, nobj, nalloc, wellFormed, focus>>

\* *p.  The caller's precondition: p points to a resource that still exists
\* (dereferencing a null or dangling pointer is undefined behaviour).
Dereference(i) ==
    /\ wellFormed /\ i \in Live
    /\ m_p[i] # NULL /\ delCount[m_p[i]] = 0
    /\ Commit(operator_star_st(St0, i))
    /\ last' = Op("operator*", i, NoInst, NoValue, operator_star(St0, i),
                  operator_star_st(St0, i))
    /\ UNCHANGED <<type, nobj, nalloc, wellFormed, focus>>

\* p.operator->(): the member itself only returns m_p.
Arrow(i) ==
    /\ wellFormed /\ i \in Live
    /\ Commit(operator_arrow_st(St0, i))
    /\ last' = Op("operator->", i, NoInst, NoValue, operator_arrow(St0, i),
                  operator_arrow_st(St0, i))
    /\ UNCHANGED <<type, nobj, nalloc, wellFormed, focus>>

\* A program that calls release() instantiates it.  If that does not
\* compile there is no program: nothing has run and nothing runs, and only
\* the offending call is on record.
Release(i) ==
    /\ wellFormed /\ i \in Live
    /\ IF release_compiles
       THEN /\ Commit(release_st(St0, i))
            /\ last' = Op("release", i, NoInst, NoValue, release_ret(St0, i),
                          release_st(St0, i))
            /\ focus' = Kept({i})
            /\ UNCHANGED <<type, nobj, nalloc, wellFormed>>
       ELSE /\ wellFormed' = FALSE
            /\ last' = [Op("release", i, NoInst, NoValue, NoValue, St0)
                          EXCEPT !.ok = FALSE]
            /\ m_p' = << >>
            /\ type' = << >>
            /\ nobj' = 0
            /\ nalloc' = 0
            /\ delCount' = [h \in Handles |-> 0]
            /\ focus' = NoFocus

Reset(i, p) ==
    /\ wellFormed /\ i \in Live /\ p \in RawArgs(i) /\ New(p)
    /\ Commit(reset(St0, i, p))
    /\ last' = Op("reset", i, NoInst, p, NoValue, reset(St0, i, p))
    /\ focus' = Kept({i})
    /\ UNCHANGED <<type, nobj, wellFormed>>

\* End of scope: the destructor runs and the object ceases to exist.
Destroy(i) ==
    /\ wellFormed /\ i \in Live
    /\ m_p' = [j \in Live \ {i} |-> dtor(St0, i).mem[j]]
    /\ type' = [j \in Live \ {i} |-> type[j]]
    /\ delCount' = dtor(St0, i).del
    /\ last' = Op("dtor", i, NoInst, NoValue, NoValue, dtor(St0, i))
    /\ focus' = Kept({i})
    /\ UNCHANGED <<nobj, nalloc, wellFormed>>

\* One step of a program whose objects have their types among Xs, seen by an
\* observer who follows an object's history only if follows is TRUE.
Step(Xs, follows) ==
    LET W == {FALSE} \cup {follows}
        WConv == {"keep"} \cup (IF follows THEN {"self", "that"} ELSE {})
    IN
    \/ \E i \in Inst, X \in Xs : DefaultConstruct(i, X)
    \/ \E i \in Inst, p \in Ptr, w \in W : Construct(i, p, w)
    \/ \E i \in Inst, h \in Handles, outcome \in NewOutcomes, w \in W :
          MakeUnique(i, h, outcome, w)
    \/ \E i \in Inst, h \in Handles, outcome \in NewOutcomes, w \in W :
          MakeUniqueForOverwrite(i, h, outcome, w)
    \/ \E i \in Inst, X \in Xs, that \in Inst, w \in WConv :
          ConvertingMoveConstruct(i, X, that, w)
    \/ \E i \in Inst, that \in Inst : CopyConstruct(i, that)
    \/ \E i \in Inst, that \in Inst : CopyAssign(i, that)
    \/ \E i \in Inst, that \in Inst : MoveConstruct(i, that)
    \/ \E i \in Inst, that \in Inst, w \in W : MoveAssign(i, that, w)
    \/ \E i \in Inst : Get(i)
    \/ \E i \in Inst : Dereference(i)
    \/ \E i \in Inst : Arrow(i)
    \/ \E i \in Inst : Release(i)
    \/ \E i \in Inst, p \in Ptr : Reset(i, p)
    \/ \E i \in Inst : Destroy(i)

\* Programs over single-object types, every object's history followed in
\* some behaviour.
Next == Step({"T"}, TRUE)

Spec == Init /\ [][Next]_vars

\* Programs that mix UniquePtr<T> and UniquePtr<T[]>, no history followed.
ArrayNext == Step(Types, FALSE)

ArraySpec == Init /\ [][ArrayNext]_vars

----------------------------------------------------------------------------
(* exchange on its own: the fields m_p of NumLocs objects hold any         *)
(* pointers, and exchange is called on any of them with any pointer.  T is *)
(* a pointer type, as in every call the library makes.                     *)

ExchangeInit ==
    /\ m_p \in [Locs -> Ptr]
    /\ type = [l \in Locs |-> "T"]
    /\ nobj = NumLocs
    /\ nalloc = NumHandles
    /\ delCount = [h \in Handles |-> 0]
    /\ wellFormed = TRUE
    /\ focus = NoFocus
    /\ last = [op |-> "init", self |-> NoInst, that |-> NoInst, arg |-> NoValue,
               old |-> NoValue, oldRel |-> 0, src |-> NoValue, ret |-> NoValue,
               ok |-> TRUE, threw |-> FALSE, tr |-> << >>,
               type |-> "none", pol |-> << >>, was |-> "none"]

Exchange(dst, val) ==
    /\ exchange_compiles(FALSE)
    /\ Commit(exchange_st(St0, dst, val))
    /\ last' = Op("exchange", dst, NoInst, val, exchange_ret(St0, dst),
                  exchange_st(St0, dst, val))
    /\ UNCHANGED <<type, nobj, nalloc, wellFormed, focus>>

ExchangeNext == \E dst \in Locs, val \in Ptr : Exchange(dst, val)

ExchangeSpec == ExchangeInit /\ [][ExchangeNext]_vars

----------------------------------------------------------------------------
(* Properties.                                                             *)

IsDelete(e) == e.ev = "delete"
\* The deleter calls an operation made, in order.
Deletes(tr) == SelectSeq(tr, IsDelete)
\* What the destructor, reset and operator= do with the pointer old they find.
ReleaseOf(old) == IF old # NULL THEN <<DelEv(old)>> ELSE << >>

MoveOps == {"ctor_move", "ctor_conv", "move_assign"}
DistinctMove == last.op \in MoveOps /\ last.self # last.that

\* C1 as stated: an object built from a non-null pointer H and destroyed with
\* no release(), move-out or reset in between has H released exactly once,
\* by its destructor: no other operation on the object releases H first.
C1_OnlyDestructorReleases ==
    /\ last.was = "raw" /\ last.op = "dtor"
          => last.tr = <<DelEv(last.old)>> /\ delCount[last.old] = 1
    /\ last.was = "raw" /\ last.op \notin {"dtor", "release", "reset"}
          => Deletes(last.tr) = << >>

C1_RawState ==
    /\ focus.kind = "raw"
          => /\ focus.obj \in Live
             /\ m_p[focus.obj] # NULL
             /\ delCount[m_p[focus.obj]] = 0
    /\ last.was = "raw" /\ last.op = "dtor"
          => last.tr = <<DelEv(last.old)>> /\ delCount[last.old] = 1
    /\ last.was = "raw" /\ last.op \notin {"dtor", "release", "reset"}
                        /\ ~(last.op = "move_assign" /\ last.self # last.that)
          => Deletes(last.tr) = << >> /\ m_p[last.self] = last.old

C1_NeverAgain ==
    wellFormed' =>
        \A h \in Handles :
            delCount[h] >= 1 /\ (\A i \in Live : m_p[i] # h)
                => delCount'[h] = delCount[h]

\* C1 (amended): an object built from a non-null pointer H and destroyed
\* with no release(), move-out, reset or move-assignment from another object
\* in between has H released exactly once: not before its destructor (H is
\* unreleased and still held until then), once by the destructor, and never
\* again once it is released and held by nobody.
C1_SingleRelease == [](C1_RawState) /\ [][C1_NeverAgain]_vars

C1_Witness ==
    /\ last.op = "dtor" /\ last.was = "raw"
    /\ last.tr = <<DelEv(last.old)>> /\ delCount[last.old] = 1

\* C2 (invariant I1): no two live objects hold the same non-null pointer.
C2_SingleOwner ==
    \A i \in Live, j \in Live :
        i # j /\ m_p[i] # NULL => m_p[i] # m_p[j]

C2_Witness ==
    /\ last.op \in {"ctor_move", "ctor_conv"} /\ last.src # NULL
    /\ m_p[last.self] = last.src /\ m_p[last.that] = NULL

\* C3: after b is move-constructed, converting-move-constructed or
\* move-assigned from a distinct a that held a non-null H, a holds null and
\* b holds H.
C3_MoveNullsSource ==
    DistinctMove /\ last.src # NULL
        => m_p[last.that] = NULL /\ m_p[last.self] = last.src

C3_Witness ==
    /\ last.op = "move_assign" /\ last.self # last.that /\ last.src # NULL
    /\ m_p[last.that] = NULL /\ m_p[last.self] = last.src

\* C4: move-assignment between distinct objects releases the pointer H1 that
\* this holds exactly once (not at all if this holds null) and does so before
\* it takes other's pointer; afterwards this holds other's former pointer and
\* other holds null.
C4_MoveAssignReleasesFirst ==
    last.op = "move_assign" /\ last.self # last.that
        => /\ last.tr = ReleaseOf(last.old)
                          \o <<StoreEv(last.that, NULL), StoreEv(last.self, last.src)>>
           /\ m_p[last.self] = last.src
           /\ m_p[last.that] = NULL
           /\ last.old # NULL => delCount[last.old] = last.oldRel + 1

C4_Witness ==
    /\ last.op = "move_assign" /\ last.self # last.that
    /\ last.old # NULL /\ last.src # NULL
    /\ Head(last.tr) = DelEv(last.old) /\ m_p[last.self] = last.src

\* C5: self-move-assignment leaves the pointer unchanged and calls no
\* deleter; a later destruction releases that pointer exactly once.
C5_SelfMoveAssign ==
    /\ last.op = "move_assign" /\ last.self = last.that
          => /\ last.tr = << >>
             /\ m_p[last.self] = last.old
             /\ last.old # NULL => delCount[last.old] = last.oldRel
    /\ last.op = "dtor" /\ last.was = "selfMoved"
          => /\ last.tr = ReleaseOf(last.old)
             /\ last.old # NULL => delCount[last.old] = last.oldRel + 1

C5_Witness ==
    /\ last.op = "dtor" /\ last.was = "selfMoved" /\ last.old # NULL
    /\ last.tr = <<DelEv(last.old)>>

\* C6: release() returns the pointer the object held, leaves the object
\* holding null and calls no deleter.
C6_ReleaseReturnsHandle ==
    last.op = "release"
        => /\ last.ok
           /\ last.ret = last.old
           /\ m_p[last.self] = NULL
           /\ Deletes(last.tr) = << >>

NullInertWithoutRelease ==
    /\ last.op = "ctor_null" \/ (last.op = "ctor_raw" /\ last.arg = NULL)
          => m_p[last.self] = NULL /\ last.tr = <<StoreEv(last.self, NULL)>>
    /\ last.op = "dtor" /\ last.old = NULL => last.tr = << >>
    /\ last.op = "reset" /\ last.old = NULL
          => /\ last.tr = <<StoreEv(last.self, last.arg)>>
             /\ m_p[last.self] = last.arg
    /\ DistinctMove /\ last.src = NULL
          => /\ Deletes(last.tr) = (IF last.op = "move_assign"
                                    THEN ReleaseOf(last.old) ELSE << >>)
             /\ m_p[last.that] = NULL
             /\ m_p[last.self] = NULL

\* C8: an object holding null calls no deleter when it is destroyed, reset,
\* release()d or the source of a move, and still holds null after reset()
\* to null and after release().
C8_NullIsInert ==
    /\ NullInertWithoutRelease
    /\ last.op = "release" /\ last.old = NULL
          => /\ last.ok
             /\ m_p[last.self] = NULL
             /\ Deletes(last.tr) = << >>

\* C9: after raw = p.release() the program goes on with p holding null, and
\* nothing p does later releases the returned pointer, so the caller's own
\* deleter call is its only release.
C9_ReleasedPointerIsCallers ==
    last.op = "release" /\ last.old # NULL
        => /\ wellFormed
           /\ last.self \in Live /\ m_p[last.self] = NULL
           /\ last.old # NULL => delCount[last.old] = last.oldRel

\* C10: the converting move constructor calls no deleter, leaves its source
\* holding null (so the source's destruction releases nothing) and gives the
\* new object the source's pointer H, which is released exactly once: when
\* the new object is destroyed, reset or move-assigned over.
C10_ConversionKeepsLifetime ==
    /\ last.op = "ctor_conv"
          => /\ Deletes(last.tr) = << >>
             /\ m_p[last.that] = NULL
             /\ m_p[last.self] = last.src
    /\ focus.kind = "convSource" => m_p[focus.obj] = NULL
    /\ last.op = "dtor" /\ last.was = "convSource" => last.tr = << >>
    /\ focus.kind = "conv"
          => m_p[focus.obj] # NULL /\ delCount[m_p[focus.obj]] = 0
    /\ last.was = "conv" /\ (last.op \in {"dtor", "reset"}
                             \/ (last.op = "move_assign" /\ last.self # last.that))
          => /\ Deletes(last.tr) = <<DelEv(last.old)>>
             /\ delCount[last.old] = 1

C10_Witness ==
    /\ last.op = "dtor" /\ last.was = "conv"
    /\ last.tr = <<DelEv(last.old)>> /\ delCount[last.old] = 1

\* The operations that only observe an object.
Observers == {"get", "operator*", "operator->"}
\* The operations through which an object's pointer may change.
Mutators == MoveOps \cup {"reset", "release"}

C11_ObserverResult ==
    last.op \in Observers
        => /\ last.ret = last.old
           /\ last.tr = << >>
           /\ m_p[last.self] = last.old

C11_Frame ==
    /\ last'.op \in Observers => m_p' = m_p /\ delCount' = delCount
    /\ \A i \in Live \cap DOMAIN m_p' :
          m_p'[i] # m_p[i] => last'.op \in Mutators

\* C11: get(), operator* and operator-> return the pointer the object holds
\* (null if it holds none), call no deleter and leave every object's pointer
\* as it was; the pointer of a live object changes only in a move (as source
\* or destination), reset or release.
C11_ObserversChangeNothing == [](C11_ObserverResult) /\ [][C11_Frame]_vars

C11_Witness ==
    /\ last.op = "get" /\ last.old # NULL /\ last.ret = last.old
    /\ \E j \in Live \ {last.self} : m_p[j] = NULL

C12_Result ==
    last.op = "exchange"
        => /\ last.ret = last.old
           /\ m_p[last.self] = last.arg
           /\ last.tr = <<StoreEv(last.self, last.arg)>>

C12_Frame ==
    last'.op = "exchange"
        => /\ last'.old = m_p[last'.self]
           /\ \A l \in Locs \ {last'.self} : m_p'[l] = m_p[l]
           /\ delCount' = delCount

\* C12: exchange(dst, val) returns the value dst held just before the call
\* and leaves val in dst, for every old and new value (old = new included),
\* with a single store and no change to any other variable.
C12_ExchangeContract == [](C12_Result) /\ [][C12_Frame]_vars

C12_Witness ==
    /\ last.op = "exchange" /\ last.old = last.arg /\ last.arg # NULL
    /\ last.ret = last.arg /\ m_p[last.self] = last.arg

MakeOps == {"makeUnique", "makeUniqueForOverwrite"}
IsAlloc(e) == e.ev = "new"
\* The resources an operation allocated and did not free again.
Obtained(tr) ==
    {tr[k].v : k \in {n \in 1 .. Len(tr) : IsAlloc(tr[n])}}
        \ {tr[k].v : k \in {n \in 1 .. Len(tr) : tr[n].ev = "operator delete"}}

C13_Result ==
    /\ last.op \in MakeOps /\ ~last.threw
          => /\ last.self \in Live
             /\ last.ret # NULL /\ m_p[last.self] = last.ret
             /\ last.tr = <<AllocEv(last.ret), StoreEv(last.self, last.ret)>>
             /\ delCount[last.ret] = 0
             /\ OtherOwners(last.self, last.ret) = {}
    /\ last.op \in MakeOps /\ last.threw
          => /\ Obtained(last.tr) = {}
             /\ \A k \in 1 .. Len(last.tr) : last.tr[k].ev \notin {"store", "delete"}
    /\ focus.kind = "made"
          => /\ focus.obj \in Live
             /\ m_p[focus.obj] # NULL
             /\ delCount[m_p[focus.obj]] = 0
    /\ last.was = "made" /\ last.op = "dtor"
          => last.tr = <<DelEv(last.old)>> /\ delCount[last.old] = 1

C13_NothingOnFailure ==
    last'.op \in MakeOps /\ last'.threw
        => m_p' = m_p /\ nobj' = nobj /\ delCount' = delCount

\* C13: makeUnique and makeUniqueForOverwrite either return an object that
\* holds the newly allocated, non-null resource, which is released exactly
\* once when that object is destroyed, or they throw what the allocation or
\* the constructor threw, and then no object exists that did not exist
\* before and no resource the call allocated is left unfreed.
C13_AllOrNothing == [](C13_Result) /\ [][C13_NothingOnFailure]_vars

C13_Witness ==
    /\ last.op = "dtor" /\ last.was = "made"
    /\ last.tr = <<DelEv(last.old)>> /\ delCount[last.old] = 1

CopyOps == {"ctor_copy", "copy_assign"}

\* C14: a program that copy-constructs or copy-assigns a UniquePtr is
\* rejected by the compiler (it never runs), and no operation that runs
\* leaves its source and its distinct destination holding the same non-null
\* pointer.
C14_CopyRejected ==
    /\ last.op \in CopyOps => ~last.ok /\ ~wellFormed /\ Live = {}
    /\ wellFormed /\ last.that \in Live /\ last.self \in Live
                  /\ last.self # last.that /\ m_p[last.self] # NULL
          => m_p[last.self] # m_p[last.that]

C14_Witness ==
    /\ last.op = "ctor_copy" /\ last.src # NULL
    /\ ~last.ok /\ ~wellFormed

\* The pointer obj holds after the first k effects of the last operation
\* (NoValue: the m_p of an object under construction, not yet assigned).
HeldAfter(k, obj) ==
    LET stores == {n \in 1 .. k : last.tr[n] \in {StoreEv(obj, v) : v \in Ptr}}
    IN  IF stores = {}
        THEN IF obj = last.self THEN last.old ELSE last.src
        ELSE last.tr[CHOOSE n \in stores : \A m \in stores : m <= n].v

\* C15: at every step inside a move construction, converting move
\* construction or move assignment between distinct objects, source and
\* destination do not both hold the same non-null pointer, and the source
\* is nulled before the destination's m_p is written.
C15_NoSharedWindow ==
    DistinctMove
        => /\ \A k \in 0 .. Len(last.tr) :
                 HeldAfter(k, last.that) \in Handles
                    => HeldAfter(k, last.self) # HeldAfter(k, last.that)
           /\ \E a \in 1 .. Len(last.tr) :
                 /\ last.tr[a] = StoreEv(last.that, NULL)
                 /\ \A b \in 1 .. a : last.tr[b].ev = "store"
                                          => last.tr[b].at # last.self
                 /\ \E b \in (a + 1) .. Len(last.tr) :
                       last.tr[b] = StoreEv(last.self, last.src)

C15_Witness ==
    /\ last.op = "ctor_move" /\ last.src # NULL
    /\ HeldAfter(0, last.that) = last.src /\ HeldAfter(0, last.self) = NoValue
    /\ HeldAfter(1, last.that) = NULL /\ HeldAfter(1, last.self) = NoValue
    /\ HeldAfter(2, last.that) = NULL /\ HeldAfter(2, last.self) = last.src

\* The release policy of a pointer over X: the array policy for an array
\* type, the single-object policy otherwise.
PolicyFor(X) == IF X = "T[]" THEN "delete[]" ELSE "delete"

\* C16: every deleter call an object makes (in its destructor, reset and
\* operator=) uses the policy of its own type: delete[] if it is a
\* UniquePtr<T[]>, delete if it is a UniquePtr<T>, with the default deleter.
C16_PolicyByType ==
    /\ Len(last.pol) = Len(Deletes(last.tr))
    /\ last.pol # << >>
          => /\ last.op \in {"dtor", "reset", "move_assign"}
             /\ last.type \in Types
             /\ \A k \in 1 .. Len(last.pol) : last.pol[k] = PolicyFor(last.type)

C16_Witness ==
    /\ last.op = "move_assign" /\ last.type = "T[]" /\ last.pol = <<"delete[]">>
    /\ last.src # NULL /\ m_p[last.self] = last.src

\* C17: when every raw pointer handed to a constructor or to reset is owned
\* by no other object (the pointer the object itself holds included), no
\* resource is released more than once and no live object holds, between
\* operations, a pointer that has been released.
C17_NoDoubleRelease ==
    /\ \A h \in Handles : delCount[h] <= 1
    /\ \A i \in Live : m_p[i] # NULL => delCount[m_p[i]] = 0

\* The objects that hold h, and the resources a completed release() has
\* handed back to the caller (release() does not compile, so there are none
\* but in the record of such a call).
Holders(h) == {i \in Live : m_p[i] = h}
HandedBack == {h \in Handles : last.op = "release" /\ last.ok /\ last.ret = h}

\* What holds of the resources in place of C18: each one handed to an
\* object is held by exactly one live object and unreleased, or it has been
\* released and at most one object still holds it.
HeldOrReleased ==
    \A h \in Allocated :
        \/ Cardinality(Holders(h)) = 1 /\ delCount[h] = 0
        \/ Cardinality(Holders(h)) <= 1 /\ delCount[h] >= 1

\* C18: between operations every resource ever handed to an object is in
\* exactly one of three conditions: held by exactly one live object,
\* released exactly once, or handed back by release(); so when all objects
\* are destroyed every resource not handed back has been released.
C18_OwnershipConserved ==
    /\ \A h \in Allocated :
          \/ Cardinality(Holders(h)) = 1 /\ delCount[h] = 0 /\ h \notin HandedBack
          \/ Holders(h) = {} /\ delCount[h] = 1 /\ h \notin HandedBack
          \/ Holders(h) = {} /\ delCount[h] = 0 /\ h \in HandedBack
    /\ wellFormed /\ Live = {}
          => \A h \in Allocated \ HandedBack : delCount[h] >= 1

=============================================================================
